---- MODULE Spec2Model ----
(***************************************************************************)
(* Wind-rose report pipeline of the wind_rose repository.                  *)
(*                                                                         *)
(* One report request (Ui_ROSA_VETROV.equal -> report_builder.make_report) *)
(* is modelled as a run through the steps of make_report: the station CSV  *)
(* is loaded and parsed (WeatherStation.get_data), sliced by the date      *)
(* window, filtered (calm / snow / wind >= 3 m/s), aggregated into the     *)
(* absolute and the percentage pivot, plotted and rendered as a table.     *)
(*                                                                         *)
(* Encoding of values                                                      *)
(*   - a timestamp "DD.MM.YYYY HH:MM" is <<day, minute of day>>;           *)
(*   - a speed is an integer number of tenths of m/s (30 is 3.0 m/s);      *)
(*   - a float NaN is the integer NaN, and every comparison with it goes   *)
(*     through Lt / Ne / NotNa, which follow IEEE-754 (NaN < x is false,   *)
(*     NaN != x is true);                                                  *)
(*   - a percentage is the exact fraction num / den: the cells of a        *)
(*     percentage pivot hold the numerators over the pivot's common        *)
(*     denominator total_count (binary floating-point error of the order   *)
(*     of 1e-14 is not modelled);                                          *)
(*   - Cyrillic string constants are transliterated to ASCII.              *)
(***************************************************************************)
EXTENDS Integers, Sequences, FiniteSets, TLC

VARIABLES
    csv,        \* the station's CSV file: [header, rows]
    pc,         \* position inside equal / make_report
    req,        \* arguments of make_report: date_from, date_to, snow, metel
    data,       \* the local DataFrame `data` of the running step
    abs_pivot,  \* make_report's abs_pivot
    rel_pivot,  \* make_report's rel_pivot (mutated by _render_to_word)
    table,      \* rows of the Word table built by _render_to_word
    result,     \* the (success, message) pair make_report returns
    call,       \* a direct call of one function: its name and arguments
    ret,        \* what that call returned, or that it raised
    on_disk,    \* the files make_report has written in this request
    r_cond,     \* the text equal has put in the label r_cond
    scene       \* whether equal has put a plot in graphicsView

vars == <<csv, pc, req, data, abs_pivot, rel_pivot, table, result, call, ret,
          on_disk, r_cond, scene>>

(***************************************************************************)
(* Bounds of the model.                                                    *)
(***************************************************************************)
MaxLen == 2     \* data rows in the CSV file
MaxDay == 3     \* calendar days 1..MaxDay

(***************************************************************************)
(* Values.                                                                 *)
(***************************************************************************)
NaN == -1                   \* np.nan in a float column
Garbage == -2               \* a text cell pd.to_numeric cannot parse
NaNObj == "np.nan"          \* np.nan stored in the object column Wind_dir
BadStamp == <<0, 0>>        \* a dt_time cell not matching "%d.%m.%Y %H:%M"
CALM == "CALM"
SNOW == 2                   \* precipitation code of snow
WIND_MIN == 30              \* 3 m/s, in tenths

Lt(x, y) == x # NaN /\ y # NaN /\ x < y      \* float x < y
Ne(x, y) == x = NaN \/ y = NaN \/ x # y      \* float x != y
NotNa(x) == x # NaN                         \* Series.notna, float column
NotNaObj(x) == x # NaNObj                   \* Series.notna, object column

DIRECTIONS_ORDER ==
    << "N", "NNE", "NE", "ENE", "E", "ESE", "SE", "SSE",
       "S", "SSW", "SW", "WSW", "W", "WNW", "NW", "NNW" >>

Directions == { DIRECTIONS_ORDER[i] : i \in 1..Len(DIRECTIONS_ORDER) }

(***************************************************************************)
(* The CSV files of the model.  Every row differs from BaseRow in at most  *)
(* one column, or is one of the MixedRows; cells carry no surrounding      *)
(* blanks, so str.strip leaves them as they are.                           *)
(***************************************************************************)
Days == 1..MaxDay
Minutes == {0, 720}
Stamps == { <<d, m>> : d \in Days, m \in Minutes }

required_columns == {"dt_time", "Wind_dir", "wind_speed", "precipitation"}

BaseRow ==
    [dt_time |-> <<2, 720>>, Wind_dir |-> "N", wind_speed |-> 30,
     precipitation |-> SNOW]

MixedRows ==
    { [dt_time |-> <<2, 0>>, Wind_dir |-> CALM, wind_speed |-> NaN,
       precipitation |-> 1],
      [dt_time |-> <<2, 0>>, Wind_dir |-> "E", wind_speed |-> 29,
       precipitation |-> NaN] }

RawRows ==
    { [BaseRow EXCEPT !.dt_time = t] : t \in Stamps \cup {BadStamp} }
    \cup { [BaseRow EXCEPT !.Wind_dir = d] : d \in {"E", CALM, ""} }
    \cup { [BaseRow EXCEPT !.wind_speed = s] : s \in {29, 31, Garbage} }
    \cup { [BaseRow EXCEPT !.precipitation = p] : p \in {1, Garbage} }
    \cup MixedRows

SeqsUpTo(S, n) == UNION { [1..k -> S] : k \in 0..n }

\* files with the four required columns, with an extra column, and (with at
\* most one data row) with a required column missing
Files ==
    { [header |-> required_columns, rows |-> rs] :
        rs \in SeqsUpTo(RawRows, MaxLen) }
    \cup { [header |-> required_columns \cup {"T"}, rows |-> rs] :
        rs \in SeqsUpTo({BaseRow}, MaxLen) }
    \cup { [header |-> required_columns \ {c}, rows |-> rs] :
        c \in {"precipitation", "dt_time"}, rs \in SeqsUpTo({BaseRow}, 1) }

Requests ==
    [date_from : Days, date_to : Days, snow : BOOLEAN, metel : BOOLEAN]

(***************************************************************************)
(* WeatherStation.get_data                                                 *)
(***************************************************************************)
\* datetime.strptime(x, "%d.%m.%Y %H:%M").date(): the time of day is dropped
dateparser(x) == x[1]

\* astype(str): an empty cell was read as NaN and becomes the text "nan"
AsStr(x) == IF x = "" THEN "nan" ELSE x

\* mutant: a text that does not parse counts as zero
ToNumericZero(x) == IF x = Garbage THEN 0 ELSE x

\* pd.to_numeric(..., errors="coerce")
ToNumeric(x) == IF x = Garbage THEN NaN ELSE x

\* mutant: any header but the four required columns is refused
missing_columns_exact(file) ==
    IF file.header = required_columns THEN {} ELSE required_columns

\* [col for col in required_columns if col not in data.columns]
missing_columns(file) == required_columns \ file.header

\* get_data raises: a required column is missing or a timestamp is malformed
get_data_raises(file) ==
    \/ missing_columns(file) # {}
    \/ \E i \in 1..Len(file.rows) : file.rows[i].dt_time = BadStamp

\* the DataFrame get_data returns; idx is the row's index label
get_data(file) ==
    [ i \in 1..Len(file.rows) |->
        [ idx |-> i,
          dt_time |-> dateparser(file.rows[i].dt_time),
          Wind_dir |-> AsStr(file.rows[i].Wind_dir),
          wind_speed |-> ToNumeric(file.rows[i].wind_speed),
          precipitation |-> ToNumeric(file.rows[i].precipitation) ] ]

(***************************************************************************)
(* WeatherStation.get_data_in_date_interval: the callers pass              *)
(* datetime.date bounds (QDate.toPyDate()), compared with the date column. *)
(***************************************************************************)
InInterval(r, df, dt) == r.dt_time > df /\ r.dt_time < dt

get_data_in_date_interval(file, df, dt) ==
    SelectSeq(get_data(file), LAMBDA r : InInterval(r, df, dt))

(***************************************************************************)
(* The three filters.                                                      *)
(***************************************************************************)
\* mutant: the sentinel is compared in lower case
CalmToNanLower(r) ==
    IF r.Wind_dir = "calm" THEN [r EXCEPT !.Wind_dir = NaNObj] ELSE r

CalmToNan(r) ==
    IF r.Wind_dir = CALM THEN [r EXCEPT !.Wind_dir = NaNObj] ELSE r

remove_calm(d) ==
    SelectSeq([i \in 1..Len(d) |-> CalmToNan(d[i])],
              LAMBDA r : NotNaObj(r.Wind_dir))

\* mutant: the test of the snow code is inverted
NotSnowToNanInverted(r) ==
    IF ~Ne(r.precipitation, SNOW) THEN [r EXCEPT !.precipitation = NaN] ELSE r

NotSnowToNan(r) ==
    IF Ne(r.precipitation, SNOW) THEN [r EXCEPT !.precipitation = NaN] ELSE r

\* mutant: with the flag off, only the observations without snow are kept
apply_snow_filter_exclusive(d, snow) ==
    IF ~snow
      THEN SelectSeq(d, LAMBDA r : Ne(r.precipitation, SNOW))
      ELSE SelectSeq([i \in 1..Len(d) |-> NotSnowToNan(d[i])],
                     LAMBDA r : NotNa(r.precipitation))

apply_snow_filter(d, snow) ==
    IF ~snow THEN d
    ELSE SelectSeq([i \in 1..Len(d) |-> NotSnowToNan(d[i])],
                   LAMBDA r : NotNa(r.precipitation))

\* mutant: the threshold itself is dropped (x <= 3)
SlowToNanLe(r) ==
    IF Lt(r.wind_speed, WIND_MIN + 1) THEN [r EXCEPT !.wind_speed = NaN] ELSE r

\* mutant: the NaN is written into the precipitation column
SlowToNanWrongColumn(r) ==
    IF Lt(r.wind_speed, WIND_MIN) THEN [r EXCEPT !.precipitation = NaN] ELSE r

SlowToNan(r) ==
    IF Lt(r.wind_speed, WIND_MIN) THEN [r EXCEPT !.wind_speed = NaN] ELSE r

apply_has_wind_over_3m_per_s_filter(d, metel) ==
    IF ~metel THEN d
    ELSE SelectSeq([i \in 1..Len(d) |-> SlowToNan(d[i])],
                   LAMBDA r : NotNa(r.wind_speed))

\* data_wind of get_data_for_rose_of_wind: the columns wd and ws
data_wind(d) ==
    [ i \in 1..Len(d) |->
        [idx |-> d[i].idx, wd |-> d[i].Wind_dir, ws |-> d[i].wind_speed] ]

\* get_data_for_rose_of_wind as a whole (for a file get_data accepts)
get_data_for_rose_of_wind(file, date_from, date_to, snow, metel) ==
    data_wind(
        apply_has_wind_over_3m_per_s_filter(
            apply_snow_filter(
                remove_calm(get_data_in_date_interval(file, date_from, date_to)),
                snow),
            metel))

(***************************************************************************)
(* Helpers: sets, sums, sorting.                                           *)
(***************************************************************************)
Range(f) == { f[i] : i \in DOMAIN f }

RECURSIVE Sum(_, _)
Sum(f, S) ==
    IF S = {} THEN 0
    ELSE LET x == CHOOSE y \in S : TRUE IN f[x] + Sum(f, S \ {x})

RECURSIVE SortInts(_)
SortInts(S) ==
    IF S = {} THEN <<>>
    ELSE LET m == CHOOSE x \in S : \A y \in S : x <= y
         IN  <<m>> \o SortInts(S \ {m})

\* the wd values of the model in Python's str order (upper case before lower)
WdOrder ==
    << "E", "ENE", "ESE", "N", "NE", "NNE", "NNW", "NW", "S", "SE", "SSE",
       "SSW", "SW", "W", "WNW", "WSW", "nan" >>

SortStrs(S) == SelectSeq(WdOrder, LAMBDA c : c \in S)

(***************************************************************************)
(* report_builder._create_absolute_pivot                                   *)
(*                                                                         *)
(* A pivot is [index, columns, cell, den]: the row labels and the column   *)
(* labels in their order, the cells by <<row label, column label>>, and    *)
(* the common denominator of the cells (1 for counts).                     *)
(***************************************************************************)
\* groupby(["ws", "wd"]) drops the rows whose key holds a NaN (dropna=True)
Grouped(d) == { i \in 1..Len(d) : NotNa(d[i].ws) /\ NotNaObj(d[i].wd) }

GroupSize(d, s, c) ==
    Cardinality({ i \in Grouped(d) : d[i].ws = s /\ d[i].wd = c })

\* mutant: the test of data.empty is missing
create_absolute_pivot_raises_never(d) == FALSE

\* if data.empty: raise ValueError
create_absolute_pivot_raises(d) == Len(d) = 0

create_absolute_pivot(d) ==
    LET ws == { d[i].ws : i \in Grouped(d) }
        wd == { d[i].wd : i \in Grouped(d) }
    IN  [ index |-> SortInts(ws),
          columns |-> SortStrs(wd),
          cell |-> [ p \in ws \X wd |-> GroupSize(d, p[1], p[2]) ],
          den |-> 1 ]

\* abs_pivot.sum().sum()
PivotSum(p) == Sum(p.cell, DOMAIN p.cell)

(***************************************************************************)
(* report_builder._create_percentage_pivot                                 *)
(***************************************************************************)
TOTAL == "Vsego,%"      \* the label of the Total column
TotalRow == -3          \* the same label in the index, whose others are speeds

Front(q) == SubSeq(q, 1, Len(q) - 1)     \* iloc[:-1]

\* total_count=None: the argument left out
None == -9

\* if total_count is None: total_count = abs_pivot.sum().sum()
total_count_or_sum(abs, total_count) ==
    IF total_count = None THEN PivotSum(abs) ELSE total_count

\* mutant: a total of zero is let through
create_percentage_pivot_raises_negative(total_count) == total_count < 0

\* if total_count <= 0: raise ValueError
create_percentage_pivot_raises(total_count) == total_count <= 0

\* mutant: the factor 100 is missing
PctCellFraction(count, total_count) == count

\* mutant: a cell below 0.05 is set to zero before the sums
PctCellZeroed(count, total_count) ==
    IF 20 * (count * 100) < total_count THEN 0 ELSE count * 100

\* one cell of abs_pivot / total_count * 100, as a numerator over total_count
PctCell(count, total_count) == count * 100

\* mutant: the corner cell is the constant 100
total_sum_hundred(cell, inner, total_count) == 100 * total_count

\* total_sum = pct_table.iloc[:-1, :-1].sum().sum()
total_sum(cell, inner, total_count) == Sum(cell, inner)

\* the table _create_percentage_pivot returns for a total_count > 0
create_percentage_pivot(abs, total_count) ==
    LET rows == Range(abs.index)
        cols == Range(abs.columns)
        \* pct_table = abs_pivot / total_count * 100
        pct == [ p \in rows \X cols |-> PctCell(abs.cell[p], total_count) ]
        \* direction_totals_pct = pct_table.sum(axis=0)
        direction_totals ==
            [ c \in cols |-> Sum([ s \in rows |-> pct[<<s, c>>] ], rows) ]
        \* pct_table.loc[TOTAL] = direction_totals_pct
        index1 == Append(abs.index, TotalRow)
        cell1 == [ p \in Range(index1) \X cols |->
                     IF p[1] = TotalRow THEN direction_totals[p[2]]
                     ELSE pct[p] ]
        \* speed_totals_pct = pct_table.iloc[:-1].sum(axis=1)
        upper == Range(Front(index1))
        speed_totals ==
            [ s \in upper |-> Sum([ c \in cols |-> cell1[<<s, c>>] ], cols) ]
        \* pct_table[TOTAL] = 0.0 ; pct_table.loc[speed_totals.index, TOTAL] = ...
        columns2 == Append(abs.columns, TOTAL)
        cell2 == [ p \in Range(index1) \X Range(columns2) |->
                     IF p[2] # TOTAL THEN cell1[p]
                     ELSE IF p[1] \in upper THEN speed_totals[p[1]]
                     ELSE 0 ]
        \* pct_table.loc[TOTAL, TOTAL] = total_sum
        inner == Range(Front(index1)) \X Range(Front(columns2))
    IN  [ index |-> index1,
          columns |-> columns2,
          cell |-> [ p \in DOMAIN cell2 |->
                       IF p = <<TotalRow, TOTAL>>
                         THEN total_sum(cell2, inner, total_count)
                         ELSE cell2[p] ],
          den |-> total_count ]

(***************************************************************************)
(* report_builder._draw_and_save_wind_rose_plot: the rows that reach the   *)
(* plot are those whose direction is a key of w_dir and whose speed is set *)
(***************************************************************************)
PlotRows(d) ==
    SelectSeq(d, LAMBDA r : r.wd \in Directions /\ NotNa(r.ws))

(***************************************************************************)
(* report_builder._format_value and the "{:.nf}" formats                   *)
(***************************************************************************)
Abs(x) == IF x < 0 THEN -x ELSE x

RECURSIVE Pow10(_)
Pow10(n) == IF n = 0 THEN 1 ELSE 10 * Pow10(n - 1)

\* num / den (den > 0, num >= 0) scaled by 10^n and rounded half to even
RoundScaled(num, den, n) ==
    LET x == num * Pow10(n)
        q == x \div den
        r == x % den
    IN  IF 2 * r > den \/ (2 * r = den /\ q % 2 = 1) THEN q + 1 ELSE q

RECURSIVE Digits(_, _)
Digits(x, n) ==
    IF n = 0 THEN "" ELSE Digits(x \div 10, n - 1) \o ToString(x % 10)

\* f"{value:.nf}" for value = num / den
FormatFixed(num, den, n) ==
    LET q == RoundScaled(Abs(num), den, n)
    IN  (IF num < 0 THEN "-" ELSE "")
        \o ToString(q \div Pow10(n)) \o "." \o Digits(q % Pow10(n), n)

\* mutant: the threshold is tested without abs()
format_value_signed(num, den) ==
    IF 20 * num < den THEN "0.0" ELSE FormatFixed(num, den, 3)

\* abs(value) < 0.05 gives "0.0", anything else three decimals
format_value(num, den) ==
    IF 20 * Abs(num) < den THEN "0.0" ELSE FormatFixed(num, den, 3)

\* _format_value of a float: np.nan, or num / den
format_value_of(value) ==
    IF value.isna THEN "0.0" ELSE format_value(value.num, value.den)

(***************************************************************************)
(* report_builder._render_to_word                                          *)
(***************************************************************************)
DIRECTION_LABELS ==
    << "S", "SSV", "SV", "SVS", "V", "VYuV", "YuV", "YuYuV",
       "Yu", "YuYuZ", "YuZ", "ZYuZ", "Z", "ZSZ", "SZ", "SSZ" >>

TABLE_HEADERS ==
    <<"Skorost vetra, m/s / Napravlenie">> \o DIRECTION_LABELS \o <<TOTAL>>

\* for d in missing_dirs: rel_pivot[d] = 0.0  -- the caller's pivot gains a
\* zero column per missing direction (appended here in DIRECTIONS_ORDER; the
\* iteration order of the Python set is not modelled)
available_dirs(rel) ==
    SelectSeq(DIRECTIONS_ORDER, LAMBDA c : c \in Range(rel.columns))

missing_dirs(rel) == Directions \ Range(available_dirs(rel))

WithMissingDirs(rel) ==
    LET added == SelectSeq(DIRECTIONS_ORDER, LAMBDA c : c \in missing_dirs(rel))
        columns == rel.columns \o added
    IN  [ rel EXCEPT
            !.columns = columns,
            !.cell = [ p \in Range(rel.index) \X Range(columns) |->
                         IF p \in DOMAIN rel.cell THEN rel.cell[p] ELSE 0 ] ]

\* An index label is a float (a speed, in tenths) or a string.
FloatLabel(v) ==
    [isstr |-> FALSE, num |-> v,
     text |-> ToString(v \div 10) \o "." \o ToString(v % 10)]
StrLabel(t) == [isstr |-> TRUE, num |-> 0, text |-> t]

\* float(x) of the strings of the model that it accepts, in tenths
FloatOfText == [ t \in {"2", "10"} |-> IF t = "2" THEN 20 ELSE 100 ]

\* float(x) raises ValueError
float_raises(x) == x.isstr /\ x.text \notin DOMAIN FloatOfText
float(x) == IF x.isstr THEN FloatOfText[x.text] ELSE x.num

\* the texts of the model in Python's str order
TextOrder == <<"10", "10.0", "2", "2.0", "2.9", "3.0", "3.1", "B", "abc">>
StrLt(a, b) ==
    \E i, j \in 1..Len(TextOrder) :
        TextOrder[i] = a /\ TextOrder[j] = b /\ i < j

\* mutant: every label is ordered as text
key_by_text(x) == <<1, 0, x.text>>

\* key(x) of _get_sorted_speeds: (0, float(x)), or (1, str(x))
key(x) == IF float_raises(x) THEN <<1, 0, x.text>> ELSE <<0, float(x), "">>

\* tuple comparison of two keys
KeyLt(k, l) ==
    \/ k[1] < l[1]
    \/ k[1] = l[1] /\ k[1] = 0 /\ k[2] < l[2]
    \/ k[1] = l[1] /\ k[1] = 1 /\ StrLt(k[3], l[3])

\* sorted(q, key=key): stable, equal keys keep their order
RECURSIVE sorted(_)
sorted(q) ==
    IF q = <<>> THEN <<>>
    ELSE LET x == q[Len(q)]
             before == sorted(Front(q))
             n == Cardinality({ i \in 1..Len(before) :
                                  ~KeyLt(key(x), key(before[i])) })
         IN  SubSeq(before, 1, n) \o <<x>>
             \o SubSeq(before, n + 1, Len(before))

\* _get_sorted_speeds: the labels but the Total one, numbers first
get_sorted_speeds(index) ==
    sorted(SelectSeq(index, LAMBDA x : x # StrLabel(TOTAL)))

\* the index of a pivot as labels, and the speeds of float labels
IndexLabels(index) ==
    [ i \in 1..Len(index) |->
        IF index[i] = TotalRow THEN StrLabel(TOTAL) ELSE FloatLabel(index[i]) ]
Speeds(labels) == [ i \in 1..Len(labels) |-> labels[i].num ]

\* str(int(float(row_label))): a speed label is cut to whole m/s
RowLabelText(label) ==
    IF label = TotalRow THEN TOTAL ELSE ToString(label \div 10)

ValueAt(rel, label, c) ==
    IF c \in Range(rel.columns) THEN rel.cell[<<label, c>>] ELSE 0

\* mutant: the cells follow the pivot's own column order
TableRowPivotOrder(rel, label) ==
    LET dirs == SelectSeq(rel.columns, LAMBDA c : c # TOTAL)
    IN  <<RowLabelText(label)>>
        \o [ j \in 1..Len(dirs) |->
               format_value(ValueAt(rel, label, dirs[j]), rel.den) ]
        \o <<format_value(ValueAt(rel, label, TOTAL), rel.den)>>

TableRow(rel, label) ==
    <<RowLabelText(label)>>
    \o [ j \in 1..Len(DIRECTIONS_ORDER) |->
           format_value(ValueAt(rel, label, DIRECTIONS_ORDER[j]), rel.den) ]
    \o <<format_value(ValueAt(rel, label, TOTAL), rel.den)>>

\* the closing "check" row: its cells 1..16 are merged into one message cell
CheckRow(rel) ==
    LET present == Directions \cap Range(rel.columns)
        direction_sum ==
            Sum([ c \in present |-> rel.cell[<<TotalRow, c>>] ], present)
        msg == "Summa po napravleniyam: "
               \o FormatFixed(direction_sum, rel.den, 1) \o "%"
    IN  <<"Proverka summy:">>
        \o [ j \in 1..Len(DIRECTIONS_ORDER) |-> msg ] \o <<"">>

\* the rows of the Word table, for the pivot after the missing columns
render_to_word(rel) ==
    LET has_total == TotalRow \in Range(rel.index)
        speed_rows == Speeds(get_sorted_speeds(IndexLabels(rel.index)))
        all_rows == speed_rows \o (IF has_total THEN <<TotalRow>> ELSE <<>>)
    IN  <<TABLE_HEADERS>>
        \o [ i \in 1..Len(all_rows) |-> TableRow(rel, all_rows[i]) ]
        \o (IF has_total THEN <<CheckRow(rel)>> ELSE <<>>)

(***************************************************************************)
(* State machine.                                                          *)
(***************************************************************************)
NoReq == [date_from |-> 0, date_to |-> 0, snow |-> FALSE, metel |-> FALSE]
NoPivot == [index |-> <<>>, columns |-> <<>>, cell |-> <<>>, den |-> 0]
NoResult == [ok |-> FALSE, msg |-> ""]
NoCall == [fn |-> ""]
NoRet == [raised |-> FALSE]

Init ==
    /\ csv \in Files
    /\ pc = "idle"
    /\ req = NoReq
    /\ data = <<>>
    /\ abs_pivot = NoPivot
    /\ rel_pivot = NoPivot
    /\ table = <<>>
    /\ result = NoResult
    /\ call = NoCall
    /\ ret = NoRet
    /\ on_disk = {}
    /\ r_cond = ""
    /\ scene = FALSE

Return(ok, msg) ==
    /\ pc' = "returned"
    /\ result' = [ok |-> ok, msg |-> msg]

\* Ui_ROSA_VETROV.equal: query_data rejects date_from > date_to, otherwise
\* make_report is called with the form's values
equal ==
    /\ pc = "idle"
    /\ \E r \in Requests :
         /\ req' = r
         /\ IF r.date_from > r.date_to
              THEN /\ pc' = "shown"
                   /\ result' = [ok |-> FALSE, msg |-> "query"]
                   /\ r_cond' = "error"
              ELSE /\ pc' = "make_report"
                   /\ result' = NoResult
                   /\ UNCHANGED r_cond
    /\ UNCHANGED <<csv, data, abs_pivot, rel_pivot, table>>
    /\ UNCHANGED <<call, ret, on_disk, scene>>

\* make_report: validation of the window
Validate ==
    /\ pc = "make_report"
    /\ IF req.date_from >= req.date_to
         THEN Return(FALSE, "dates")
         ELSE pc' = "load" /\ UNCHANGED result
    /\ UNCHANGED <<csv, req, data, abs_pivot, rel_pivot, table>>
    /\ UNCHANGED <<call, ret, on_disk, r_cond, scene>>

\* get_data_for_rose_of_wind: data = self.get_data_in_date_interval(...)
Slice ==
    /\ pc = "load"
    /\ IF get_data_raises(csv)
         THEN Return(FALSE, "load") /\ UNCHANGED data
         ELSE /\ data' = get_data_in_date_interval(csv, req.date_from, req.date_to)
              /\ pc' = "sliced"
              /\ UNCHANGED result
    /\ UNCHANGED <<csv, req, abs_pivot, rel_pivot, table>>
    /\ UNCHANGED <<call, ret, on_disk, r_cond, scene>>

\* data = self._remove_calm(data)
Calm ==
    /\ pc = "sliced"
    /\ data' = remove_calm(data)
    /\ pc' = "calm"
    /\ UNCHANGED <<csv, req, abs_pivot, rel_pivot, table, result>>
    /\ UNCHANGED <<call, ret, on_disk, r_cond, scene>>

\* data = self._apply_snow_filter(data, snow)
Snow ==
    /\ pc = "calm"
    /\ data' = apply_snow_filter(data, req.snow)
    /\ pc' = "snow"
    /\ UNCHANGED <<csv, req, abs_pivot, rel_pivot, table, result>>
    /\ UNCHANGED <<call, ret, on_disk, r_cond, scene>>

\* data = self._apply_has_wind_over_3m_per_s_filter(data, metel)
Wind ==
    /\ pc = "snow"
    /\ data' = apply_has_wind_over_3m_per_s_filter(data, req.metel)
    /\ pc' = "wind"
    /\ UNCHANGED <<csv, req, abs_pivot, rel_pivot, table, result>>
    /\ UNCHANGED <<call, ret, on_disk, r_cond, scene>>

\* the return of get_data_for_rose_of_wind and make_report's data.empty test
Select ==
    /\ pc = "wind"
    /\ data' = data_wind(data)
    /\ IF Len(data) = 0
         THEN Return(FALSE, "empty")
         ELSE pc' = "selected" /\ UNCHANGED result
    /\ UNCHANGED <<csv, req, abs_pivot, rel_pivot, table>>
    /\ UNCHANGED <<call, ret, on_disk, r_cond, scene>>

\* abs_pivot = _create_absolute_pivot(data)
AbsPivot ==
    /\ pc = "selected"
    /\ IF create_absolute_pivot_raises(data)
         THEN Return(FALSE, "pivot") /\ UNCHANGED abs_pivot
         ELSE /\ abs_pivot' = create_absolute_pivot(data)
              /\ pc' = "abs"
              /\ UNCHANGED result
    /\ UNCHANGED <<csv, req, data, rel_pivot, table>>
    /\ UNCHANGED <<call, ret, on_disk, r_cond, scene>>

\* total = abs_pivot.sum().sum(); rel_pivot = _create_percentage_pivot(...)
PctPivot ==
    /\ pc = "abs"
    /\ IF PivotSum(abs_pivot) = 0
         THEN Return(FALSE, "zero total") /\ UNCHANGED rel_pivot
         ELSE IF create_percentage_pivot_raises(
                   total_count_or_sum(abs_pivot, PivotSum(abs_pivot)))
         THEN Return(FALSE, "percent") /\ UNCHANGED rel_pivot
         ELSE /\ rel_pivot' = create_percentage_pivot(abs_pivot,
                   total_count_or_sum(abs_pivot, PivotSum(abs_pivot)))
              /\ pc' = "pct"
              /\ UNCHANGED result
    /\ UNCHANGED <<csv, req, data, abs_pivot, table>>
    /\ UNCHANGED <<call, ret, on_disk, r_cond, scene>>

\* mutant: the test is left out
exists_always(disk, path) == TRUE

\* os.path.exists(path)
exists(disk, path) == path \in disk

\* _draw_and_save_wind_rose_plot and the test that the image exists: it
\* raises when no row is left to plot; writing the image may fail
Plot ==
    /\ pc = "pct"
    /\ \E saved \in BOOLEAN :
         LET raises == Len(PlotRows(data)) = 0
             disk == IF saved /\ ~raises THEN on_disk \cup {"jpg"}
                     ELSE on_disk
         IN  /\ on_disk' = disk
             /\ IF raises \/ ~exists(disk, "jpg")
                  THEN Return(FALSE, "plot")
                  ELSE pc' = "plotted" /\ UNCHANGED result
    /\ UNCHANGED <<csv, req, data, abs_pivot, rel_pivot, table>>
    /\ UNCHANGED <<call, ret, r_cond, scene>>

\* _render_to_word and the test that the document exists; writing the
\* document may fail
Render ==
    /\ pc = "plotted"
    /\ rel_pivot' = WithMissingDirs(rel_pivot)
    /\ table' = render_to_word(WithMissingDirs(rel_pivot))
    /\ \E saved \in BOOLEAN :
         LET disk == IF saved THEN on_disk \cup {"docx"} ELSE on_disk
         IN  /\ on_disk' = disk
             /\ IF exists(disk, "docx")
                  THEN Return(TRUE, "")
                  ELSE Return(FALSE, "word")
    /\ UNCHANGED <<csv, req, data, abs_pivot>>
    /\ UNCHANGED <<call, ret, r_cond, scene>>

\* equal after make_report: its result is not looked at; the description of
\* the request goes to r_cond, then the image is looked for under the
\* working directory (not where make_report wrote it) and shown, or
\* FileNotFoundError puts an error text in r_cond
Show ==
    /\ pc = "returned"
    /\ pc' = "shown"
    /\ \E found \in BOOLEAN :
         IF found
           THEN r_cond' = "description" /\ scene' = TRUE
           ELSE r_cond' = "error" /\ scene' = FALSE
    /\ UNCHANGED <<csv, req, data, abs_pivot, rel_pivot, table, result>>
    /\ UNCHANGED <<call, ret, on_disk>>

\* equal has returned: the request is over, its locals are gone, and what
\* it wrote and showed is not followed further
Finish ==
    /\ pc = "shown"
    /\ pc' = "idle"
    /\ req' = NoReq
    /\ data' = <<>>
    /\ abs_pivot' = NoPivot
    /\ rel_pivot' = NoPivot
    /\ table' = <<>>
    /\ result' = NoResult
    /\ on_disk' = {}
    /\ r_cond' = ""
    /\ scene' = FALSE
    /\ UNCHANGED csv
    /\ UNCHANGED <<call, ret>>

Next ==
    \/ equal
    \/ Validate
    \/ Slice
    \/ Calm
    \/ Snow
    \/ Wind
    \/ Select
    \/ AbsPivot
    \/ PctPivot
    \/ Plot
    \/ Render
    \/ Show
    \/ Finish

Spec == Init /\ [][Next]_vars

(***************************************************************************)
(* Direct calls.  The functions of report_builder are also callable on     *)
(* their own, with arguments make_report never passes; a second            *)
(* specification adds such calls to the program, from a state of its own.  *)
(***************************************************************************)
\* frames of the two columns wd and ws, the empty frame among them
CallRows ==
    { [wd |-> c, ws |-> s] : c \in {"E", "N"}, s \in {10, 20, NaN} }

CallFrames ==
    { [ i \in 1..Len(q) |-> [idx |-> i, wd |-> q[i].wd, ws |-> q[i].ws] ] :
        q \in SeqsUpTo(CallRows, MaxLen) }

Raised == [raised |-> TRUE]
Returned(v) == [raised |-> FALSE, value |-> v]

InitCalls ==
    /\ csv = [header |-> required_columns, rows |-> <<>>]
    /\ pc = "direct"
    /\ req = NoReq
    /\ data = <<>>
    /\ abs_pivot = NoPivot
    /\ rel_pivot = NoPivot
    /\ table = <<>>
    /\ result = NoResult
    /\ call = NoCall
    /\ ret = NoRet
    /\ on_disk = {}
    /\ r_cond = ""
    /\ scene = FALSE

pipeline ==
    <<csv, req, data, abs_pivot, rel_pivot, table, result, on_disk, r_cond,
      scene>>

\* _create_absolute_pivot(data)
CallAbsolutePivot ==
    /\ pc = "direct"
    /\ \E d \in CallFrames :
         /\ call' = [fn |-> "_create_absolute_pivot", data |-> d]
         /\ ret' = IF create_absolute_pivot_raises(d) THEN Raised
                   ELSE Returned(create_absolute_pivot(d))
    /\ pc' = "called"
    /\ UNCHANGED pipeline

\* tables of counts, as _create_absolute_pivot returns them and others
MaxTotal == 3
BigCount == 2001
CountValues == {0, 1, 2, BigCount}

CallPivots ==
    UNION { { [index |-> ix, columns |-> cs, cell |-> f, den |-> 1] :
                f \in [Range(ix) \X Range(cs) -> CountValues] } :
            ix \in {<<10>>, <<10, 20>>}, cs \in {<<"N">>, <<"E", "N">>} }

TotalCounts == (-1..MaxTotal) \cup {None}

\* _create_percentage_pivot(abs_pivot, total_count)
CallPercentagePivot ==
    /\ pc = "direct"
    /\ \E abs \in CallPivots, t \in TotalCounts :
         /\ call' = [fn |-> "_create_percentage_pivot",
                      abs_pivot |-> abs, total_count |-> t]
         /\ ret' = IF create_percentage_pivot_raises(
                        total_count_or_sum(abs, t))
                   THEN Raised
                   ELSE Returned(create_percentage_pivot(
                                   abs, total_count_or_sum(abs, t)))
    /\ pc' = "called"
    /\ UNCHANGED pipeline

(***************************************************************************)
(* wind_plot.obr_file, from the table of counts to the percentage table.   *)
(* Its cells are rounded to one decimal: they are held in tenths, den 10.  *)
(***************************************************************************)
\* Series.round(1) of 100 * count / total_count, in tenths
Round1(count, total_count) == RoundScaled(100 * count, total_count, 1)

\* applymap(lambda x: 0.0 if abs(x) < 0.05 else x), x in tenths
ZeroMicro(x) == IF 20 * Abs(x) < 10 THEN 0 ELSE x

obr_file_pct(pivot_abs) ==
    LET rows == Range(pivot_abs.index)
        cols == Range(pivot_abs.columns)
        \* total_count = res['count'].sum()
        total_count == PivotSum(pivot_abs)
        \* direction_totals = pivot_abs.sum(axis=0)
        direction_totals ==
            [ c \in cols |->
                Sum([ s \in rows |-> pivot_abs.cell[<<s, c>>] ], rows) ]
        \* pivot_pct = (pivot_abs.iloc[:-1, :-1] / total_count * 100)
        \*             .round(1).applymap(...)
        pivot_pct ==
            [ p \in rows \X cols |->
                ZeroMicro(Round1(pivot_abs.cell[p], total_count)) ]
        \* direction_pct = (direction_totals / total_count * 100).round(1)
        direction_pct ==
            [ c \in cols |-> Round1(direction_totals[c], total_count) ]
        \* speed_pct_totals = pivot_pct.iloc[:-1, :].sum(axis=1)
        speed_pct_totals ==
            [ s \in rows |->
                Sum([ c \in cols |-> pivot_pct[<<s, c>>] ], cols) ]
        \* total_sum = pivot_pct.iloc[:-1, :-1].sum().sum()
        sum_of_cells == Sum(pivot_pct, rows \X cols)
        index1 == Append(pivot_abs.index, TotalRow)
        columns1 == Append(pivot_abs.columns, TOTAL)
    IN  [ index |-> index1,
          columns |-> columns1,
          cell |-> [ p \in Range(index1) \X Range(columns1) |->
                       IF p = <<TotalRow, TOTAL>> THEN sum_of_cells
                       ELSE IF p[1] = TotalRow THEN direction_pct[p[2]]
                       ELSE IF p[2] = TOTAL THEN speed_pct_totals[p[1]]
                       ELSE pivot_pct[p] ],
          den |-> 10 ]

\* obr_file on the observations a table of counts stands for; it returns
\* before the tables when no observation is left
CallObrFile ==
    /\ pc = "direct"
    /\ \E abs \in CallPivots :
         /\ PivotSum(abs) > 0
         /\ call' = [fn |-> "obr_file", pivot_abs |-> abs]
         /\ ret' = Returned(obr_file_pct(abs))
    /\ pc' = "called"
    /\ UNCHANGED pipeline

\* floats in steps of 0.0001 around the 0.05 threshold, on both sides of
\* zero, a few larger ones, and np.nan
MaxNum == 600
ValueDen == Pow10(4)
LargeNums == {-1000000, -12345, 12345, 99949, 1000000}

Values ==
    { [isna |-> FALSE, num |-> n, den |-> ValueDen] :
        n \in (-MaxNum..MaxNum) \cup LargeNums }
    \cup { [isna |-> TRUE, num |-> 0, den |-> 1] }

\* _format_value(value)
CallFormatValue ==
    /\ pc = "direct"
    /\ \E v \in Values :
         /\ call' = [fn |-> "_format_value", value |-> v]
         /\ ret' = Returned(format_value_of(v))
    /\ pc' = "called"
    /\ UNCHANGED pipeline

\* indexes of float and string labels, the Total label among them
MaxIndex == 3
CallLabels ==
    { FloatLabel(v) : v \in {20, 100} }
    \cup { StrLabel(t) : t \in {"2", "10", "B", "abc", TOTAL} }

\* _get_sorted_speeds(index)
CallGetSortedSpeeds ==
    /\ pc = "direct"
    /\ \E index \in SeqsUpTo(CallLabels, MaxIndex) :
         /\ call' = [fn |-> "_get_sorted_speeds", index |-> index]
         /\ ret' = Returned(get_sorted_speeds(index))
    /\ pc' = "called"
    /\ UNCHANGED pipeline

(***************************************************************************)
(* wind_plot.obr_file, from the file to the slice between the two dates.   *)
(* dt_time is compared as text: a text "DD.MM.YYYY HH:MM" is <<day,        *)
(* minute>>, and the date alone, "DD.MM.YYYY", is <<day, NoTime>>.         *)
(***************************************************************************)
NoTime == -1

\* time_1, in minutes of the day
time_1 == <<0, 180, 360, 540, 720, 900, 1080, 1260>>

\* file_csv.index[file_csv['dt_time'] == date_1].tolist(), positions from 1
IndexOf(rows, date_1) == { i \in 1..Len(rows) : rows[i].dt_time = date_1 }

\* the for loop over order: the first date + time_1[i] the file holds, or
\* the date as it was when no pass reaches the break
RECURSIVE Probe(_, _, _)
Probe(rows, date, order) ==
    IF order = <<>> THEN <<date, NoTime>>
    ELSE IF IndexOf(rows, <<date, time_1[Head(order)]>>) # {}
         THEN <<date, time_1[Head(order)]>>
         ELSE Probe(rows, date, Tail(order))

\* mutant: the end date is probed from 00:00 upwards
DescendingAsAscending == <<1, 2, 3, 4, 5, 6, 7, 8>>

\* range(8) and range(7, -1, -1), positions from 1
Ascending == <<1, 2, 3, 4, 5, 6, 7, 8>>
Descending == <<8, 7, 6, 5, 4, 3, 2, 1>>

MinOf(S) == CHOOSE x \in S : \A y \in S : x <= y
MaxOf(S) == CHOOSE x \in S : \A y \in S : x >= y

\* mutant: the slice runs from the start record to the end record
SliceBoundsAsGiven(i_n, i_k) == <<i_n, i_k>>

\* start_idx = min(index_n[0], index_k[0]); end_idx = max(...)
SliceBounds(i_n, i_k) == <<MinOf({i_n, i_k}), MaxOf({i_n, i_k})>>

\* what obr_file has when it reaches the filters, or how it returned
obr_file_slice(file, date_n0, date_k0) ==
    LET rows == file.rows
        date_n == Probe(rows, date_n0, Ascending)
        date_k == Probe(rows, date_k0, Descending)
        index_n == IndexOf(rows, date_n)
        index_k == IndexOf(rows, date_k)
        bounds == SliceBounds(MinOf(index_n), MinOf(index_k))
        base == [error |-> "", missing |-> {}, date_n |-> date_n,
                 date_k |-> date_k, slice |-> {}]
    IN  IF missing_columns(file) # {}
          THEN [error |-> "missing columns",
                missing |-> missing_columns(file),
                date_n |-> <<date_n0, NoTime>>,
                date_k |-> <<date_k0, NoTime>>, slice |-> {}]
        ELSE IF index_n = {} \/ index_k = {}
          THEN [base EXCEPT !.error = "dates not found"]
        \* file_csv.loc[start_idx:end_idx], both ends included
        ELSE [base EXCEPT !.slice = bounds[1]..bounds[2]]

\* files as obr_file reads them: of each row only dt_time matters here
MaxRows == 3
LegacyStamps == { <<d, m>> : d \in {1, 2}, m \in {0, 180, 750, 1260} }
LegacyFiles ==
    { [header |-> h, rows |-> [ i \in 1..Len(q) |-> [dt_time |-> q[i]] ]] :
        h \in { required_columns, required_columns \cup {"T"},
                 required_columns \ {"precipitation", "wind_speed"} },
        q \in SeqsUpTo(LegacyStamps, MaxRows) }

\* obr_file(station, date_n, date_k, ...)
CallObrFileSlice ==
    /\ pc = "direct"
    /\ \E file \in LegacyFiles, date_n \in {1, 2}, date_k \in {1, 2} :
         /\ call' = [fn |-> "obr_file slice", file |-> file,
                      date_n |-> date_n, date_k |-> date_k]
         /\ ret' = Returned(obr_file_slice(file, date_n, date_k))
    /\ pc' = "called"
    /\ UNCHANGED pipeline

\* station.get_data(): the ValueError names the missing columns, strptime
\* raises on a text that is no timestamp
RaisedWith(e, missing) == [raised |-> TRUE, error |-> e, missing |-> missing]

CallGetData ==
    /\ pc = "direct"
    /\ \E file \in Files :
         /\ call' = [fn |-> "get_data", file |-> file]
         /\ ret' = IF missing_columns(file) # {}
                     THEN RaisedWith("miss columns", missing_columns(file))
                   ELSE IF get_data_raises(file)
                     THEN RaisedWith("time data", {})
                   ELSE Returned(get_data(file))
    /\ pc' = "called"
    /\ UNCHANGED pipeline

(***************************************************************************)
(* wind_plot.df_preparation, the legacy filtering, on the frame b_wind     *)
(* obr_file builds from the rows of its window.                            *)
(***************************************************************************)
\* b_wind: the columns wd, ws and sn
b_wind(rows) ==
    [ i \in 1..Len(rows) |->
        [ idx |-> i,
          wd |-> AsStr(rows[i].Wind_dir),
          ws |-> ToNumeric(rows[i].wind_speed),
          sn |-> ToNumeric(rows[i].precipitation) ] ]

\* b_w.dropna(): a row with NaN in any of the three columns goes
dropna(b_w) ==
    SelectSeq(b_w, LAMBDA r : NotNaObj(r.wd) /\ NotNa(r.ws) /\ NotNa(r.sn))

df_preparation(b_w, snow, metel) ==
    LET calm(r) == IF r.wd = CALM THEN [r EXCEPT !.wd = NaNObj] ELSE r
        snowed(r) == IF snow /\ Ne(r.sn, SNOW) THEN [r EXCEPT !.sn = NaN] ELSE r
        windy(r) == IF metel /\ Lt(r.ws, WIND_MIN) THEN [r EXCEPT !.ws = NaN] ELSE r
    IN  dropna([ i \in 1..Len(b_w) |-> windy(snowed(calm(b_w[i]))) ])

\* the canonical filters on the same rows, as get_data_for_rose_of_wind
\* applies them after its date window
canonical_preparation(d, snow, metel) ==
    apply_has_wind_over_3m_per_s_filter(
        apply_snow_filter(remove_calm(d), snow), metel)

\* df_preparation(b_wind, snow, metel)
CallDfPreparation ==
    /\ pc = "direct"
    /\ \E file \in Files, snow \in BOOLEAN, metel \in BOOLEAN :
         /\ ~get_data_raises(file)
         /\ call' = [fn |-> "df_preparation", file |-> file,
                     snow |-> snow, metel |-> metel]
         /\ ret' = Returned(df_preparation(b_wind(file.rows), snow, metel))
    /\ pc' = "called"
    /\ UNCHANGED pipeline

\* the caller drops the result
CallOver ==
    /\ pc = "called"
    /\ pc' = "direct"
    /\ call' = NoCall
    /\ ret' = NoRet
    /\ UNCHANGED pipeline

NextCalls ==
    \/ Next
    \/ CallAbsolutePivot
    \/ CallPercentagePivot
    \/ CallObrFile
    \/ CallObrFileSlice
    \/ CallGetData
    \/ CallDfPreparation
    \/ CallFormatValue
    \/ CallGetSortedSpeeds
    \/ CallOver

SpecCalls == (Init \/ InitCalls) /\ [][NextCalls]_vars

(***************************************************************************)
(* Properties.                                                             *)
(***************************************************************************)
IdxSet(d) == { d[i].idx : i \in 1..Len(d) }
Rows(d) == { d[i] : i \in 1..Len(d) }

\* order of timestamps <<day, minute>>; a date bound is its midnight
StampLt(a, b) == a[1] < b[1] \/ (a[1] = b[1] /\ a[2] < b[2])
Midnight(day) == <<day, 0>>

\* C1 (as claimed): the slice holds exactly the observations whose timestamp,
\* date and time of day, lies strictly between the two bounds.
C1_SliceByTimestamp ==
    pc = "sliced" =>
        IdxSet(data) =
            { i \in 1..Len(csv.rows) :
                /\ StampLt(Midnight(req.date_from), csv.rows[i].dt_time)
                /\ StampLt(csv.rows[i].dt_time, Midnight(req.date_to)) }

\* C2: the wind filter leaves its input as it is when disabled; when enabled
\* it keeps, unchanged and in order, exactly the rows whose speed is set and
\* is at least 3.0 m/s.
C2_WindFilter ==
    [][ (pc = "snow" /\ pc' = "wind") =>
          IF req.metel
            THEN data' = SelectSeq(data, LAMBDA r :
                            r.wind_speed # NaN /\ r.wind_speed >= 30)
            ELSE data' = data ]_vars

\* C2 witness: the enabled filter kept a 3.0 m/s row and dropped the other
\* row of the file, whose speed is 2.9 m/s or absent.
C2_Witness ==
    /\ pc = "wind"
    /\ req.metel
    /\ Len(csv.rows) = 2
    /\ Len(data) = 1
    /\ data[1].wind_speed = 30
    /\ \E i \in 1..2 :
         /\ i # data[1].idx
         /\ csv.rows[i].Wind_dir = "N"
         /\ csv.rows[i].dt_time = <<2, 720>>
         /\ csv.rows[i].precipitation = SNOW
         /\ csv.rows[i].wind_speed \in {29, Garbage}

\* C3: the snow filter leaves its input as it is when disabled; when enabled
\* it keeps, unchanged and in order, exactly the rows whose precipitation
\* code is set and equals 2.
C3_SnowFilter ==
    [][ (pc = "calm" /\ pc' = "snow") =>
          IF req.snow
            THEN data' = SelectSeq(data, LAMBDA r : r.precipitation = 2)
            ELSE data' = data ]_vars

\* C3 witness: the enabled filter kept a snow row and dropped the other row
\* of the file, whose code is 1 or absent.
C3_Witness ==
    /\ pc = "snow"
    /\ req.snow
    /\ Len(csv.rows) = 2
    /\ Len(data) = 1
    /\ data[1].precipitation = 2
    /\ \E i \in 1..2 :
         /\ i # data[1].idx
         /\ csv.rows[i].Wind_dir = "N"
         /\ csv.rows[i].dt_time = <<2, 720>>
         /\ csv.rows[i].precipitation \in {1, Garbage}

\* C4: once _remove_calm has run, and so before the snow and the wind filter
\* and in what get_data_for_rose_of_wind returns, no row has direction CALM,
\* whatever the flags and the window.
C4_NoCalm ==
    /\ pc \in {"calm", "snow", "wind"} =>
         \A i \in 1..Len(data) : data[i].Wind_dir # "CALM"
    /\ pc \in {"selected", "abs", "pct", "plotted", "returned"} =>
         \A i \in 1..Len(data) : data[i].wd # "CALM"

\* C4 witness: a CALM row of the window was removed with both flags off, and
\* the other row of the file was returned.
C4_Witness ==
    /\ pc = "selected"
    /\ ~req.snow /\ ~req.metel
    /\ Len(data) = 1
    /\ \E i \in 1..Len(csv.rows) :
         /\ csv.rows[i].Wind_dir = "CALM"
         /\ csv.rows[i].dt_time[1] > req.date_from
         /\ csv.rows[i].dt_time[1] < req.date_to

\* C5 (as claimed): every row handed to the aggregator has one of the 16
\* compass codes as direction and a speed that is set.
C5_AggregatorInput ==
    pc = "selected" =>
        \A i \in 1..Len(data) :
            data[i].wd \in Directions /\ data[i].ws # NaN

\* the three filters by name, and their application in a given order
ApplyFilter(name, d, snow, metel) ==
    CASE name = "calm" -> remove_calm(d)
      [] name = "snow" -> apply_snow_filter(d, snow)
      [] name = "wind" -> apply_has_wind_over_3m_per_s_filter(d, metel)

ApplyInOrder(order, d, snow, metel) ==
    ApplyFilter(order[3],
        ApplyFilter(order[2], ApplyFilter(order[1], d, snow, metel),
                    snow, metel),
        snow, metel)

FilterOrders ==
    { o \in [1..3 -> {"calm", "snow", "wind"}] :
        \A i, j \in 1..3 : i # j => o[i] # o[j] }

\* C6: on the slice about to be filtered, each of the six orders of the three
\* filters retains the same rows as the order calm, snow, wind.
C6_OrderInsensitive ==
    pc = "sliced" =>
        \A o \in FilterOrders :
            Rows(ApplyInOrder(o, data, req.snow, req.metel))
                = Rows(ApplyInOrder(<<"calm", "snow", "wind">>, data,
                                    req.snow, req.metel))

\* C6 witness: both flags are on and the slice holds a row only the snow
\* filter rejects and a row only the wind filter rejects.
C6_Witness ==
    /\ pc = "sliced"
    /\ req.snow /\ req.metel
    /\ \E i, j \in 1..Len(data) :
         /\ data[i].precipitation # 2 /\ data[i].wind_speed = 30
         /\ data[j].precipitation = 2 /\ data[j].wind_speed = 29

\* what get_data_for_rose_of_wind returns for the state's file and window
Retained(snow, metel) ==
    IdxSet(get_data_for_rose_of_wind(csv, req.date_from, req.date_to, snow, metel))

\* C7: what the request got is what the composed function gives; enabling a
\* criterion gives a subset of the result with it disabled, the other one
\* unchanged; both enabled give the intersection of each enabled alone.
C7_NoWidening ==
    (pc = "selected" \/ (pc = "returned" /\ result.msg = "empty")) =>
        /\ IdxSet(data) = Retained(req.snow, req.metel)
        /\ \A m \in BOOLEAN : Retained(TRUE, m) \subseteq Retained(FALSE, m)
        /\ \A s \in BOOLEAN : Retained(s, TRUE) \subseteq Retained(s, FALSE)
        /\ Retained(TRUE, TRUE)
             = Retained(TRUE, FALSE) \cap Retained(FALSE, TRUE)

\* C7 witness: a request with both criteria on returned a row, and each
\* criterion alone retains a row the other rejects.
C7_Witness ==
    /\ pc = "selected"
    /\ req.snow /\ req.metel
    /\ Retained(TRUE, FALSE) # Retained(FALSE, FALSE)
    /\ Retained(FALSE, TRUE) # Retained(FALSE, FALSE)
    /\ Retained(TRUE, TRUE) # {}

\* C8 (as claimed): each cell of the absolute pivot is the number of rows
\* passed in with that speed and direction, and the cells sum to the number
\* of rows passed in.
C8_AbsolutePivotCounts ==
    pc = "abs" =>
        /\ \A s \in Range(abs_pivot.index), c \in Range(abs_pivot.columns) :
             abs_pivot.cell[<<s, c>>] =
                Cardinality({ i \in 1..Len(data) :
                                data[i].ws = s /\ data[i].wd = c })
        /\ PivotSum(abs_pivot) = Len(data)

\* C9 (as claimed): the absolute and the percentage pivot hold all 16
\* direction codes as columns.
C9_PivotsHoldAllDirections ==
    /\ pc = "abs" => Directions \subseteq Range(abs_pivot.columns)
    /\ pc = "pct" => Directions \subseteq Range(rel_pivot.columns)

\* the claimed order of the direction columns, and the headers that go with it
C10_Order ==
    << "N", "NNE", "NE", "ENE", "E", "ESE", "SE", "SSE",
       "S", "SSW", "SW", "WSW", "W", "WNW", "NW", "NNW" >>

C10_Labels ==
    << "S", "SSV", "SV", "SVS", "V", "VYuV", "YuV", "YuYuV",
       "Yu", "YuYuZ", "YuZ", "ZYuZ", "Z", "ZSZ", "SZ", "SSZ" >>

\* rows of the request's data counted in the pivot with direction c
CountedWith(c) ==
    Cardinality({ i \in 1..Len(data) : data[i].wd = c /\ data[i].ws # NaN })

\* C10: every row of the rendered table has 18 cells: the row label, the 16
\* directions in the fixed order, the Total last; the Total row shows under
\* each direction that direction's share of the counted rows, and a direction
\* absent from the data shows "0.0" in every row.
C10_TableShape ==
    (pc = "returned" /\ table # <<>>) =>
        LET n == Len(table)
            total == PivotSum(abs_pivot)
        IN  /\ \A i \in 1..n : Len(table[i]) = 18
            /\ \A j \in 1..16 : table[1][j + 1] = C10_Labels[j]
            /\ table[1][18] = TOTAL
            /\ table[n - 1][1] = TOTAL
            /\ \A j \in 1..16 :
                 table[n - 1][j + 1]
                    = format_value(100 * CountedWith(C10_Order[j]), total)
            /\ \A i \in 2..(n - 1), j \in 1..16 :
                 C10_Order[j] \notin Range(abs_pivot.columns)
                    => table[i][j + 1] = "0.0"

\* C10 witness: a table was rendered for data with two directions present.
C10_Witness ==
    /\ pc = "returned"
    /\ result.ok
    /\ Len(table) = 5
    /\ Cardinality(Range(abs_pivot.columns)) = 2

(***************************************************************************)
(* C11: _create_absolute_pivot raises, and returns no table, whenever its  *)
(* frame has no row; make_report builds no pivot, no plot and no document  *)
(* from an empty filtered set: it returns a failure first.                 *)
(***************************************************************************)
C11_EmptyIsFatal ==
    /\ (call.fn = "_create_absolute_pivot" /\ Len(call.data) = 0)
         => ret = Raised
    /\ pc \in {"selected", "abs", "pct", "plotted"} => Len(data) > 0
    /\ (pc = "returned" /\ Len(data) = 0)
         => /\ ~result.ok
            /\ abs_pivot = NoPivot /\ rel_pivot = NoPivot /\ table = <<>>

\* an empty frame was passed to _create_absolute_pivot
C11_Witness ==
    /\ call.fn = "_create_absolute_pivot"
    /\ Len(call.data) = 0
    /\ ret.raised

(***************************************************************************)
(* C12: for every table of counts and every total_count > 0, each cell of  *)
(* the table _create_percentage_pivot returns that is in neither margin    *)
(* equals 100 * count / total_count; when total_count is the sum of all    *)
(* counts, as make_report passes it, the grand-total cell is 100.          *)
(***************************************************************************)
\* the value cell / den of a percentage table equals num / d
CellIs(rel, p, num, d) == rel.cell[p] * d = num * rel.den

PercentOf(abs, rel, t) ==
    /\ \A p \in DOMAIN abs.cell : CellIs(rel, p, 100 * abs.cell[p], t)
    /\ t = PivotSum(abs) => CellIs(rel, <<TotalRow, TOTAL>>, 100, 1)

C12_PercentCells ==
    /\ (call.fn = "_create_percentage_pivot" /\ ~ret.raised)
         => PercentOf(call.abs_pivot, ret.value,
                      total_count_or_sum(call.abs_pivot, call.total_count))
    /\ pc \in {"pct", "plotted"}
         => PercentOf(abs_pivot, rel_pivot, PivotSum(abs_pivot))

\* a call with a total_count that is not the sum, and a count that is not 0
C12_Witness ==
    /\ call.fn = "_create_percentage_pivot"
    /\ ~ret.raised
    /\ call.total_count = MaxTotal
    /\ PivotSum(call.abs_pivot) = 2
    /\ Cardinality(DOMAIN call.abs_pivot.cell) = 4

(***************************************************************************)
(* C13: _create_percentage_pivot raises, and returns no table, whenever    *)
(* total_count <= 0; make_report returns a failure, and no percentage      *)
(* table, when the counts of the absolute table sum to zero.               *)
(***************************************************************************)
C13_ZeroTotalIsFatal ==
    /\ (call.fn = "_create_percentage_pivot"
         /\ total_count_or_sum(call.abs_pivot, call.total_count) <= 0)
         => ret = Raised
    /\ pc \in {"pct", "plotted"} => PivotSum(abs_pivot) > 0
    /\ (pc = "returned" /\ abs_pivot # NoPivot /\ PivotSum(abs_pivot) = 0)
         => ~result.ok /\ rel_pivot = NoPivot /\ table = <<>>

\* the total was left out and the counts sum to zero
C13_Witness ==
    /\ call.fn = "_create_percentage_pivot"
    /\ call.total_count = None
    /\ PivotSum(call.abs_pivot) = 0
    /\ ret.raised

(***************************************************************************)
(* C14: in the table _create_percentage_pivot returns, the Total row holds *)
(* per direction the sum down the column of the percentage cells, and the  *)
(* Total column per speed the sum along the row, of cells that were        *)
(* neither rounded nor, when below 0.05, set to zero.                      *)
(***************************************************************************)
UnroundedMargins(abs, rel, t) ==
    LET rows == Range(abs.index)
        cols == Range(abs.columns)
        exact == [ p \in rows \X cols |-> 100 * abs.cell[p] ]
    IN  /\ rel.den = t
        /\ \A p \in rows \X cols : rel.cell[p] = exact[p]
        /\ \A c \in cols : rel.cell[<<TotalRow, c>>] =
               Sum([ s \in rows |-> exact[<<s, c>>] ], rows)
        /\ \A s \in rows : rel.cell[<<s, TOTAL>>] =
               Sum([ c \in cols |-> exact[<<s, c>>] ], cols)

C14_MarginsOfUnroundedCells ==
    /\ (call.fn = "_create_percentage_pivot" /\ ~ret.raised)
         => UnroundedMargins(call.abs_pivot, ret.value,
                total_count_or_sum(call.abs_pivot, call.total_count))
    /\ pc \in {"pct", "plotted"}
         => UnroundedMargins(abs_pivot, rel_pivot, PivotSum(abs_pivot))

\* a table with a cell below 0.05 per cent in a row and a column of two
C14_Witness ==
    /\ call.fn = "_create_percentage_pivot"
    /\ ~ret.raised
    /\ call.total_count = None
    /\ Len(call.abs_pivot.index) = 2 /\ Len(call.abs_pivot.columns) = 2
    /\ \E p \in DOMAIN call.abs_pivot.cell :
         /\ call.abs_pivot.cell[p] > 0
         /\ 20 * (100 * call.abs_pivot.cell[p]) < PivotSum(call.abs_pivot)

(***************************************************************************)
(* C15: in the percentage table of wind_plot.obr_file the Total row and    *)
(* the Total column are sums taken before any rounding to one decimal, so  *)
(* that each margin is within one rounding, 0.05, of 100 * (count of the   *)
(* row or column) / total_count.                                           *)
(***************************************************************************)
\* the value tenths / 10 is within 0.05 of 100 * count / total_count
WithinOneRounding(tenths, count, total_count) ==
    2 * Abs(tenths * total_count - 1000 * count) <= total_count

C15_LegacyMarginsOneRounding ==
    call.fn = "obr_file" =>
        LET abs == call.pivot_abs
            rows == Range(abs.index)
            cols == Range(abs.columns)
            t == PivotSum(abs)
        IN  /\ \A c \in cols :
                 WithinOneRounding(ret.value.cell[<<TotalRow, c>>],
                     Sum([ s \in rows |-> abs.cell[<<s, c>>] ], rows), t)
            /\ \A s \in rows :
                 WithinOneRounding(ret.value.cell[<<s, TOTAL>>],
                     Sum([ c \in cols |-> abs.cell[<<s, c>>] ], cols), t)

(***************************************************************************)
(* C16: the grand-total cell of a percentage table, of                     *)
(* _create_percentage_pivot and of obr_file alike, is within 0.2 of the    *)
(* sum of the cells that are in neither margin: it is computed from them,  *)
(* not set to 100.                                                         *)
(***************************************************************************)
GrandTotalReconciles(rel) ==
    LET inner == Range(Front(rel.index)) \X Range(Front(rel.columns))
    IN  5 * Abs(rel.cell[<<TotalRow, TOTAL>>] - Sum(rel.cell, inner))
            <= rel.den

C16_GrandTotalFromCells ==
    /\ (call.fn = "_create_percentage_pivot" /\ ~ret.raised)
         => GrandTotalReconciles(ret.value)
    /\ call.fn = "obr_file" => GrandTotalReconciles(ret.value)
    /\ pc \in {"pct", "plotted"} => GrandTotalReconciles(rel_pivot)

\* a table whose cells do not sum to 100: total_count is not their sum
C16_Witness ==
    /\ call.fn = "_create_percentage_pivot"
    /\ ~ret.raised
    /\ PivotSum(call.abs_pivot) > 0
    /\ ret.value.cell[<<TotalRow, TOTAL>>] # 100 * ret.value.den

(***************************************************************************)
(* C17: _format_value renders a percentage as "0.0" exactly when its       *)
(* absolute value is below 0.05, whatever its sign.                        *)
(***************************************************************************)
Below005(value) == 20 * Abs(value.num) < value.den

C17_ZeroBelowThreshold ==
    (call.fn = "_format_value" /\ ~call.value.isna)
        => (Below005(call.value) <=> ret.value = "0.0")

\* a negative value at or beyond the threshold
C17_Witness ==
    /\ call.fn = "_format_value"
    /\ ~call.value.isna
    /\ call.value.num < 0
    /\ ~Below005(call.value)
    /\ ret.value # "0.0"

(***************************************************************************)
(* C18: _format_value renders every percentage of absolute value 0.05 or   *)
(* more with exactly one digit after the decimal point.                    *)
(***************************************************************************)
C18_OneDecimal ==
    (call.fn = "_format_value" /\ ~call.value.isna /\ ~Below005(call.value))
        => ret.value = FormatFixed(call.value.num, call.value.den, 1)

(***************************************************************************)
(* C19: _get_sorted_speeds returns the labels of the index without the     *)
(* Total label: those convertible to a number first, in ascending numeric  *)
(* order (2 before 10), the others after them in lexical order; the table  *)
(* rendered puts the Total row after all of them.                          *)
(***************************************************************************)
Positions(q, x) == { i \in 1..Len(q) : q[i] = x }

SortedSpeeds(index, r) ==
    /\ \A x \in Range(index) \cup Range(r) :
         Cardinality(Positions(r, x)) =
            IF x = StrLabel(TOTAL) THEN 0
            ELSE Cardinality(Positions(index, x))
    /\ \A i, j \in 1..Len(r) : i < j =>
         /\ ~float_raises(r[j]) => ~float_raises(r[i])
         /\ (~float_raises(r[i]) /\ ~float_raises(r[j]))
              => float(r[i]) <= float(r[j])
         /\ (float_raises(r[i]) /\ float_raises(r[j]))
              => ~StrLt(r[j].text, r[i].text)

C19_SpeedOrder ==
    /\ call.fn = "_get_sorted_speeds" => SortedSpeeds(call.index, ret.value)
    /\ (pc = "returned" /\ table # <<>>) =>
         /\ table[Len(table) - 1][1] = TOTAL
         /\ \A i \in 2..(Len(table) - 2) :
              /\ table[i][1] # TOTAL
              /\ table[i][1] = RowLabelText(rel_pivot.index[i - 1])
              /\ i > 2 => rel_pivot.index[i - 2] < rel_pivot.index[i - 1]

\* an index with 10.0, the Total label and 2.0, in this order
C19_Witness ==
    /\ call.fn = "_get_sorted_speeds"
    /\ Len(call.index) >= 3
    /\ call.index[1] = FloatLabel(100)
    /\ call.index[2] = StrLabel(TOTAL)
    /\ call.index[3] = FloatLabel(20)
    /\ ret.value[1] = FloatLabel(20)

(***************************************************************************)
(* C20: a record whose direction is none of the 16 codes and that reaches  *)
(* the conversion to degrees of _draw_and_save_wind_rose_plot makes the    *)
(* report fail: no plot is drawn, and no success returned, from data that  *)
(* hold such a record.                                                     *)
(***************************************************************************)
C20_UnknownDirectionFails ==
    (pc = "plotted" \/ (pc = "returned" /\ result.ok))
        => \A i \in 1..Len(data) : data[i].wd \in Directions

(***************************************************************************)
(* C21: obr_file resolves a start date that has records at synoptic hours  *)
(* to the earliest such hour of that date, and an end date that has such   *)
(* records to the latest such hour of that date.                           *)
(***************************************************************************)
\* the synoptic minutes of day d at which the rows hold a record
SynopticHits(rows, d) ==
    { m \in Range(time_1) : \E i \in 1..Len(rows) : rows[i].dt_time = <<d, m>> }

C21_ResolvedHours ==
    (call.fn = "obr_file slice" /\ ret.value.error # "missing columns") =>
        LET rows == call.file.rows
            hits_n == SynopticHits(rows, call.date_n)
            hits_k == SynopticHits(rows, call.date_k)
        IN  /\ hits_n # {} => ret.value.date_n = <<call.date_n, MinOf(hits_n)>>
            /\ hits_k # {} => ret.value.date_k = <<call.date_k, MaxOf(hits_k)>>

\* the end date has records at two synoptic hours, the later one first
C21_Witness ==
    /\ call.fn = "obr_file slice"
    /\ ret.value.error = ""
    /\ Cardinality(SynopticHits(call.file.rows, call.date_k)) >= 2
    /\ call.file.rows[1].dt_time = <<call.date_k, 1260>>
    /\ ret.value.date_k = <<call.date_k, 1260>>

(***************************************************************************)
(* C22: when a requested date of obr_file has no record at any synoptic    *)
(* hour, the bound stays unresolved and obr_file goes on with the date as  *)
(* it was given; the missing match is no failure.                          *)
(***************************************************************************)
C22_UnresolvedIsNoFailure ==
    (call.fn = "obr_file slice" /\ ret.value.error # "missing columns") =>
        LET rows == call.file.rows
            unresolved_n == SynopticHits(rows, call.date_n) = {}
            unresolved_k == SynopticHits(rows, call.date_k) = {}
        IN  /\ unresolved_n => ret.value.date_n = <<call.date_n, NoTime>>
            /\ unresolved_k => ret.value.date_k = <<call.date_k, NoTime>>
            /\ (unresolved_n \/ unresolved_k) => ret.value.error = ""

(***************************************************************************)
(* C23: once both dates of obr_file are resolved to records, the slice     *)
(* runs from the smaller to the larger of the two record positions: it is  *)
(* not empty and holds both records, also when the end record comes first  *)
(* in the file.                                                            *)
(***************************************************************************)
C23_SliceMinToMax ==
    (call.fn = "obr_file slice" /\ ret.value.error = "") =>
        LET rows == call.file.rows
            i_n == MinOf(IndexOf(rows, ret.value.date_n))
            i_k == MinOf(IndexOf(rows, ret.value.date_k))
        IN  /\ ret.value.slice # {}
            /\ i_n \in ret.value.slice /\ i_k \in ret.value.slice
            /\ \A i \in 1..Len(rows) :
                 i \in ret.value.slice <=>
                    (i_n <= i /\ i <= i_k) \/ (i_k <= i /\ i <= i_n)

\* the end record precedes the start record, with a record between them
C23_Witness ==
    /\ call.fn = "obr_file slice"
    /\ ret.value.error = ""
    /\ MinOf(IndexOf(call.file.rows, ret.value.date_k)) + 1
         < MinOf(IndexOf(call.file.rows, ret.value.date_n))
    /\ Cardinality(ret.value.slice) = 3

(***************************************************************************)
(* C24: loading a file that lacks a required column fails with an error    *)
(* that names the missing columns, and yields no observation, in get_data  *)
(* as in obr_file; a column beyond the four never makes the load fail.     *)
(***************************************************************************)
Lacking(file) == required_columns \ file.header

C24_SchemaError ==
    /\ call.fn = "get_data" =>
         IF Lacking(call.file) # {}
           THEN ret = RaisedWith("miss columns", Lacking(call.file))
           ELSE ret.raised =>
                  \E i \in 1..Len(call.file.rows) :
                     call.file.rows[i].dt_time = BadStamp
    /\ call.fn = "obr_file slice" =>
         IF Lacking(call.file) # {}
           THEN /\ ret.value.error = "missing columns"
                /\ ret.value.missing = Lacking(call.file)
                /\ ret.value.slice = {}
           ELSE ret.value.error # "missing columns"
    /\ Lacking(csv) # {} =>
         /\ data = <<>>
         /\ pc \in {"idle", "make_report", "load", "returned", "shown"}
         /\ pc = "returned" => ~result.ok /\ result.msg \in {"dates", "load"}

\* get_data on a file without the column precipitation
C24_Witness ==
    /\ call.fn = "get_data"
    /\ Lacking(call.file) = {"precipitation"}
    /\ ret.raised

(***************************************************************************)
(* C25: get_data keeps a record whose speed or precipitation does not      *)
(* parse, with that field NaN; the record is still there after the slice   *)
(* by dates and after the filters that are switched off.  A single         *)
(* timestamp that is not DD.MM.YYYY HH:MM makes the whole load fail.       *)
(***************************************************************************)
Unparsed(r) == r.wind_speed = Garbage \/ r.precipitation = Garbage

C25_CoerceNotDrop ==
    /\ (call.fn = "get_data" /\ Lacking(call.file) = {}) =>
         LET rows == call.file.rows
         IN  IF \E i \in 1..Len(rows) : rows[i].dt_time = BadStamp
               THEN ret.raised
               ELSE /\ ~ret.raised
                    /\ Len(ret.value) = Len(rows)
                    /\ \A i \in 1..Len(rows) :
                         /\ rows[i].wind_speed = Garbage
                              => ret.value[i].wind_speed = NaN
                         /\ rows[i].precipitation = Garbage
                              => ret.value[i].precipitation = NaN
    /\ (pc \in {"sliced", "calm", "snow", "wind"}
         /\ ~req.snow /\ ~req.metel) =>
         \A i \in 1..Len(csv.rows) :
            (/\ Unparsed(csv.rows[i])
             /\ csv.rows[i].Wind_dir \in Directions
             /\ req.date_from < csv.rows[i].dt_time[1]
             /\ csv.rows[i].dt_time[1] < req.date_to)
            => \E j \in 1..Len(data) :
                 /\ data[j].idx = i
                 /\ csv.rows[i].wind_speed = Garbage
                      => data[j].wind_speed = NaN
                 /\ csv.rows[i].precipitation = Garbage
                      => data[j].precipitation = NaN

\* a record with an unparsed speed has passed the filters switched off
C25_Witness ==
    /\ pc = "wind"
    /\ ~req.snow /\ ~req.metel
    /\ \E j \in 1..Len(data) :
         /\ data[j].wind_speed = NaN
         /\ csv.rows[data[j].idx].wind_speed = Garbage

(***************************************************************************)
(* C26: a request whose make_report result is a failure is shown to the    *)
(* user as an error or a no-data condition: equal never leaves the         *)
(* description of a saved report in r_cond, nor a plot on the screen, for  *)
(* such a request.                                                         *)
(***************************************************************************)
C26_FailureIsShown ==
    (pc = "shown" /\ ~result.ok) => (r_cond # "description" /\ ~scene)

(***************************************************************************)
(* C27: a pivot is not changed once it is built: _render_to_word leaves    *)
(* the percentage pivot as _create_percentage_pivot returned it, columns   *)
(* and cells, and _create_percentage_pivot leaves the absolute pivot as it *)
(* was.                                                                    *)
(***************************************************************************)
C27_PivotsAreNotChanged ==
    [][ /\ pc = "abs" => abs_pivot' = abs_pivot
        /\ pc = "plotted" => rel_pivot' = rel_pivot ]_vars

(***************************************************************************)
(* C30: make_report always returns: (True, None) only when the filtered    *)
(* set was not empty, both pivots were built and the image and the         *)
(* document exist; (False, message) with a message otherwise, and without  *)
(* loading anything when date_from >= date_to.                             *)
(***************************************************************************)
C30_ReturnsPair ==
    pc = "returned" =>
        /\ result.ok =>
             /\ result.msg = ""
             /\ Len(data) > 0
             /\ abs_pivot # NoPivot /\ rel_pivot # NoPivot
             /\ {"jpg", "docx"} \subseteq on_disk
        /\ ~result.ok => result.msg # ""
        /\ req.date_from >= req.date_to =>
             ~result.ok /\ result.msg = "dates" /\ data = <<>>

\* a report was made
C30_Witness ==
    /\ pc = "returned"
    /\ result.ok

(***************************************************************************)
(* C28: the legacy df_preparation and the canonical filters keep the same  *)
(* observations of the same rows, whatever the rows and the two flags.     *)
(***************************************************************************)
C28_LegacyKeepsTheSame ==
    call.fn = "df_preparation" =>
        IdxSet(ret.value)
          = IdxSet(canonical_preparation(get_data(call.file),
                                         call.snow, call.metel))

(***************************************************************************)
(* C29: in the table make_report has rendered, the margins reconcile the   *)
(* displayed cells: a speed row's Total is the sum of its 16 direction     *)
(* values, the 16 direction values of the Total row sum to the grand       *)
(* total, and so do the speed values of the Total column; each within 0.2, *)
(* also when a direction of the data is none of the 16 codes.              *)
(***************************************************************************)
Displayed(rel, label) ==
    Sum([ c \in Directions |-> ValueAt(rel, label, c) ], Directions)

Near(rel, x, y) == 5 * Abs(x - y) <= rel.den

MarginsReconcileDisplayed(rel) ==
    LET speeds == Range(rel.index) \ {TotalRow}
        grand == ValueAt(rel, TotalRow, TOTAL)
    IN  /\ \A label \in speeds :
             Near(rel, ValueAt(rel, label, TOTAL), Displayed(rel, label))
        /\ Near(rel, Displayed(rel, TotalRow), grand)
        /\ Near(rel, Sum([ l \in speeds |-> ValueAt(rel, l, TOTAL) ], speeds),
                 grand)

C29_MarginsReconcileDisplayed ==
    (pc = "returned" /\ result.ok) => MarginsReconcileDisplayed(rel_pivot)

====
